---- MODULE Spec2Model ----
(***************************************************************************)
(* A model of java_type_checker: the type registry with its subtype        *)
(* relation (types.py) and the expression checker (expressions.py).        *)
(*                                                                         *)
(* A Type is identified by its name.  Python exceptions are modelled as    *)
(* result records: every operation returns either Ok(value) or             *)
(* Raise(exception, ...), and an exception raised by a callee propagates   *)
(* exactly where the Python code has no matching except clause.            *)
(***************************************************************************)
EXTENDS Integers, Sequences, FiniteSets, TLC

VARIABLES
    supers,       \* Type.direct_supertypes of every type: name -> sequence of names
    decl,         \* the user classes whose own method table holds UserMethod
    call,         \* the operation invoked last, with its arguments
    ret,          \* what that operation returned or raised
    pc,           \* position inside Type.is_subtype_of (the step-level run)
    self,         \* is_subtype_of: self
    other,        \* is_subtype_of: other
    allSupers,    \* is_subtype_of: the worklist
    prevSize,     \* is_subtype_of: prevSize
    currentSize,  \* is_subtype_of: currentSize
    idx,          \* is_subtype_of: position of `for super in allSupers`
    jdx           \* is_subtype_of: position of `for potentialSuper in potentialNewSupers`

vars == <<supers, decl, call, ret, pc, self, other, allSupers, prevSize, currentSize, idx, jdx>>
loopVars == <<pc, self, other, allSupers, prevSize, currentSize, idx, jdx>>

Range(s) == {s[k] : k \in 1..Len(s)}

----------------------------------------------------------------------------
(* The registry.                                                           *)

\* Bounds of the model.
MaxEdges == 4          \* direct-supertype edges declared by the user classes, in total
RecursionLimit == 6    \* depth at which the interpreter raises RecursionError
MaxArgs == 2           \* arguments of a call expression

\* types.py:109-113: the built-in primitive types, plain Type instances.
Primitives == {"void", "boolean", "int", "double"}
\* types.py:115
NullT == "null"
\* types.py:117
ObjectT == "Object"
\* Classes declared by the program under check.
UserClasses == {"A", "B", "C"}
ClassTypes == {ObjectT} \cup UserClasses
Types == Primitives \cup {NullT} \cup ClassTypes

\* types.py:119 passes the Python builtin `object`, which is no Type, as the
\* parameter type of Object.equals.
PyObject == "<class 'object'>"

\* A declared supertype list: zero, one or two distinct class types.
SuperLists ==
    {<<>>} \cup {<<a>> : a \in ClassTypes}
           \cup {p \in ClassTypes \X ClassTypes : p[1] # p[2]}

RECURSIVE SumLen(_, _)
SumLen(g, S) ==
    IF S = {} THEN 0
    ELSE LET c == CHOOSE x \in S : TRUE IN Len(g[c]) + SumLen(g, S \ {c})

\* Every built-in type is constructed with the default direct_supertypes=[].
BuiltinSupers == [t \in Types \ UserClasses |-> <<>>]

\* The supertype graphs: chains, diamonds, forests and graphs with cycles.
Graphs ==
    {BuiltinSupers @@ g : g \in {h \in [UserClasses -> SuperLists] : SumLen(h, UserClasses) <= MaxEdges}}

\* Reachability in a graph g, by iterating the edge relation on sets of types
\* (the reference the subtype relation is compared with).
RECURSIVE ReachFrom(_, _, _)
ReachFrom(g, S, n) ==
    IF n = 0 THEN S
    ELSE ReachFrom(g, S \cup UNION {Range(g[t]) : t \in S}, n - 1)
\* The types reachable from t in one or more direct_supertypes steps.
Ancestors(g, t) == ReachFrom(g, Range(g[t]), Cardinality(Types))
\* No type of g is its own ancestor.
Acyclic(g) == \A t \in Types : t \notin Ancestors(g, t)

----------------------------------------------------------------------------
(* Type.is_subtype_of, as a function.                                      *)

\* types.py:23-26: one run of `for potentialSuper in potentialNewSupers`.
RECURSIVE InnerLoop(_, _, _)
InnerLoop(all, ps, j) ==
    IF j > Len(ps) THEN all
    ELSE InnerLoop(IF ps[j] \notin Range(all) THEN Append(all, ps[j]) ELSE all, ps, j + 1)

\* types.py:21-26: `for super in allSupers`; the list grows while it is iterated,
\* and the iteration goes on through the appended elements.
RECURSIVE ForLoop(_, _)
ForLoop(all, k) ==
    IF k > Len(all) THEN all
    ELSE ForLoop(InnerLoop(all, supers[all[k]], 1), k + 1)

\* types.py:19-26: `while currentSize > prevSize`.
RECURSIVE WhileLoop(_, _, _)
WhileLoop(all, prev, cur) ==
    IF cur > prev
    THEN LET grown == ForLoop(all, 1)
         IN WhileLoop(grown, cur, cur + (Len(grown) - Len(all)))
    ELSE all

\* A single pass over the direct supertypes of self only.
DirectOnly(t) == InnerLoop(<<t>>, supers[t], 1)

\* The worklist seeded with the direct supertypes alone, self left out.
AllSupersNoSelf(t) ==
    LET seed == InnerLoop(<<>>, supers[t], 1)
    IN WhileLoop(seed, -1, Len(seed))

\* types.py:16-26: the ancestor list is_subtype_of builds.
AllSupers(t) == WhileLoop(<<t>>, -1, 1)

\* is_subtype_of looking at self and its direct supertypes only.
TypeIsSubtypeOfDirect(t, o) == o \in Range(DirectOnly(t))

\* types.py:12-28 Type.is_subtype_of.
TypeIsSubtypeOf(t, o) == o \in Range(AllSupers(t))

\* types.py:93-94 NullType.is_subtype_of.
NullIsSubtypeOf(t, o) == TRUE

\* self.is_subtype_of(other), dispatched on the class of self.
IsSubtypeOf(t, o) ==
    IF t = NullT THEN NullIsSubtypeOf(t, o) ELSE TypeIsSubtypeOf(t, o)

\* types.py:30-33 Type.is_supertype_of.
TypeIsSupertypeOf(t, o) == IsSubtypeOf(o, t)

\* types.py:96-97 NullType.is_supertype_of.
NullIsSupertypeOf(t, o) == FALSE

\* self.is_supertype_of(other), dispatched on the class of self.
IsSupertypeOf(t, o) ==
    IF t = NullT THEN NullIsSupertypeOf(t, o) ELSE TypeIsSupertypeOf(t, o)

----------------------------------------------------------------------------
(* Shared state.                                                           *)

NoCall == [op |-> "none"]
LoopIdle ==
    /\ pc = "idle" /\ self = NullT /\ other = NullT /\ allSupers = <<>>
    /\ prevSize = 0 /\ currentSize = 0 /\ idx = 0 /\ jdx = 0

InitSubtype ==
    /\ supers \in Graphs
    /\ decl = {}
    /\ call = NoCall
    /\ ret = FALSE
    /\ LoopIdle

\* a.is_subtype_of(b)
IsSubtypeOfCall ==
    /\ call = NoCall
    /\ \E a \in Types, b \in Types :
        /\ call' = [op |-> "is_subtype_of", self |-> a, other |-> b]
        /\ ret' = IsSubtypeOf(a, b)
        /\ UNCHANGED <<supers, decl, loopVars>>

\* a.is_supertype_of(b)
IsSupertypeOfCall ==
    /\ call = NoCall
    /\ \E a \in Types, b \in Types :
        /\ call' = [op |-> "is_supertype_of", self |-> a, other |-> b]
        /\ ret' = IsSupertypeOf(a, b)
        /\ UNCHANGED <<supers, decl, loopVars>>

NextSubtype == IsSubtypeOfCall \/ IsSupertypeOfCall

SpecSubtype == InitSubtype /\ [][NextSubtype]_vars

----------------------------------------------------------------------------
(* Type.is_subtype_of, step by step: one action per loop test or body.     *)

InitLoop == InitSubtype

\* types.py:12-18 (and 93-94 when self is the null type): entry.
StartIsSubtypeOf ==
    /\ pc = "idle"
    /\ \E a \in Types, b \in Types :
        /\ self' = a
        /\ other' = b
        /\ IF a = NullT
           THEN /\ call' = [op |-> "is_subtype_of", self |-> a, other |-> b]
                /\ ret' = TRUE
                /\ pc' = "done"
                /\ UNCHANGED <<allSupers, prevSize, currentSize>>
           ELSE /\ allSupers' = <<a>>
                /\ prevSize' = -1
                /\ currentSize' = 1
                /\ pc' = "while"
                /\ UNCHANGED <<call, ret>>
    /\ UNCHANGED <<supers, decl, idx, jdx>>

\* types.py:19-20: the while test, and prevSize = currentSize.
WhileTest ==
    /\ pc = "while"
    /\ IF currentSize > prevSize
       THEN /\ prevSize' = currentSize
            /\ idx' = 1
            /\ pc' = "for"
       ELSE /\ pc' = "return"
            /\ UNCHANGED <<prevSize, idx>>
    /\ UNCHANGED <<supers, decl, call, ret, self, other, allSupers, currentSize, jdx>>

\* types.py:21-22: the next element of `for super in allSupers`, if there is one.
ForSuper ==
    /\ pc = "for"
    /\ IF idx <= Len(allSupers)
       THEN /\ jdx' = 1
            /\ pc' = "inner"
       ELSE /\ pc' = "while"
            /\ UNCHANGED jdx
    /\ UNCHANGED <<supers, decl, call, ret, self, other, allSupers, prevSize, currentSize, idx>>

\* The inner loop body without the `not in allSupers` test.
InnerStepNoTest ==
    /\ pc = "inner"
    /\ Len(allSupers) <= 2 * Cardinality(Types)
    /\ LET ps == supers[allSupers[idx]] IN
       IF jdx <= Len(ps)
       THEN /\ allSupers' = Append(allSupers, ps[jdx])
            /\ currentSize' = currentSize + 1
            /\ jdx' = jdx + 1
            /\ UNCHANGED <<idx, pc>>
       ELSE /\ idx' = idx + 1
            /\ pc' = "for"
            /\ UNCHANGED <<allSupers, currentSize, jdx>>
    /\ UNCHANGED <<supers, decl, call, ret, self, other, prevSize>>

\* types.py:23-26: one potentialSuper of the inner for loop, or its end.
InnerStep ==
    /\ pc = "inner"
    /\ LET ps == supers[allSupers[idx]] IN
       IF jdx <= Len(ps)
       THEN /\ IF ps[jdx] \notin Range(allSupers)
               THEN /\ allSupers' = Append(allSupers, ps[jdx])
                    /\ currentSize' = currentSize + 1
               ELSE UNCHANGED <<allSupers, currentSize>>
            /\ jdx' = jdx + 1
            /\ UNCHANGED <<idx, pc>>
       ELSE /\ idx' = idx + 1
            /\ pc' = "for"
            /\ UNCHANGED <<allSupers, currentSize, jdx>>
    /\ UNCHANGED <<supers, decl, call, ret, self, other, prevSize>>

\* types.py:28: return(other in allSupers).
ReturnIsSubtypeOf ==
    /\ pc = "return"
    /\ call' = [op |-> "is_subtype_of", self |-> self, other |-> other]
    /\ ret' = (other \in Range(allSupers))
    /\ pc' = "done"
    /\ UNCHANGED <<supers, decl, self, other, allSupers, prevSize, currentSize, idx, jdx>>

NextLoop == StartIsSubtypeOf \/ WhileTest \/ ForSuper \/ InnerStep \/ ReturnIsSubtypeOf

\* The interpreter runs the call to its end: every enabled step is taken.
SpecLoop == InitLoop /\ [][NextLoop]_vars /\ WF_vars(NextLoop)

----------------------------------------------------------------------------
(* Methods and constructors.                                               *)

\* The name the user classes may declare a method under.
UserMethod == "m"
\* A name no class declares.
Absent == "zz"
MethodNameSet == {"equals", "hashCode", UserMethod, Absent}

\* Signatures of the user classes (the program under check supplies them).
UserMethodParams(t) ==
    CASE t = "A" -> <<>>
      [] t = "B" -> <<"double", "double">>
      [] OTHER   -> <<"A">>
UserMethodReturn(t) ==
    CASE t = "A" -> "B"
      [] t = "B" -> "void"
      [] OTHER   -> "int"
UserConstructor(t) ==
    CASE t = "A" -> <<>>
      [] t = "B" -> <<"double", "double">>
      [] OTHER   -> <<"A", "B">>

\* types.py:43-49 Method; id stands for the identity of the Python object.
Method(owner, n, params, rtype) ==
    [id |-> <<owner, n>>, name |-> n, argument_types |-> params, return_type |-> rtype]

\* types.py:65 (and 117-121 for Object, 88 for null): the keys of self.methods.
OwnMethodNames(t) ==
    IF t = ObjectT THEN {"equals", "hashCode"}
    ELSE IF t \in decl THEN {UserMethod}
    ELSE {}

\* types.py:65, 117-121: self.methods[n], for n a key of it.
OwnMethod(t, n) ==
    IF t = ObjectT
    THEN IF n = "equals" THEN Method(t, n, <<PyObject>>, "boolean")
                         ELSE Method(t, n, <<>>, "int")
    ELSE Method(t, n, UserMethodParams(t), UserMethodReturn(t))

\* types.py:61-64 (39-40): self.constructor.argument_types of a class type.
ConstructorArgs(t) == IF t \in UserClasses THEN UserConstructor(t) ELSE <<>>

\* An exception, or none.  The fields other than exc are the values the code
\* formats into the message.
Err(exc, what, on, meth, expected, got, nExpected, nGot) ==
    [exc |-> exc, what |-> what, on |-> on, method |-> meth,
     expected |-> expected, got |-> got, nExpected |-> nExpected, nGot |-> nGot]
NoErr == Err("", "", "", "", <<>>, <<>>, 0, 0)
\* AttributeError: the object has no attribute `attr`.
AttributeError(attr) == Err("AttributeError", attr, "", "", <<>>, <<>>, 0, 0)
\* The interpreter's RecursionError.
RecursionError == Err("RecursionError", "", "", "", <<>>, <<>>, 0, 0)
\* types.py:79, 91: NoSuchMethod("{0} has no method named {1}").
NoSuchMethod(t, n) == Err("NoSuchMethod", "has no method named", t, n, <<>>, <<>>, 0, 0)

MethodFound(m) == [err |-> NoErr, method |-> <<m>>]
MethodFailed(e) == [err |-> e, method |-> <<>>]

\* types.py:68-79 ClassOrInterface.method_named, types.py:90-91
\* NullType.method_named; a plain Type has no method_named at all.  depth counts
\* the frames of the recursion.
RECURSIVE MethodNamedAt(_, _, _)
RECURSIVE SearchSupertypes(_, _, _, _)
MethodNamedAt(t, n, depth) ==
    IF t \in Primitives THEN MethodFailed(AttributeError("method_named"))
    ELSE IF depth > RecursionLimit THEN MethodFailed(RecursionError)
    ELSE IF t = NullT THEN MethodFailed(NoSuchMethod(t, n))
    ELSE IF n \in OwnMethodNames(t) THEN MethodFound(OwnMethod(t, n))
    ELSE SearchSupertypes(t, n, 1, depth)

\* types.py:74-79: the for loop over self.direct_supertypes; only NoSuchMethod
\* is caught.
SearchSupertypes(t, n, k, depth) ==
    IF k > Len(supers[t]) THEN MethodFailed(NoSuchMethod(t, n))
    ELSE LET r == MethodNamedAt(supers[t][k], n, depth + 1)
         IN IF r.err.exc = "NoSuchMethod"
            THEN SearchSupertypes(t, n, k + 1, depth)
            ELSE r

\* t.method_named(n), called from outside.
MethodNamed(t, n) == MethodNamedAt(t, n, 1)

InitMethods ==
    /\ supers \in Graphs
    /\ decl \in SUBSET UserClasses
    /\ call = NoCall
    /\ ret = FALSE
    /\ LoopIdle

\* t.method_named(n) on a class/interface type or on the null type.
MethodNamedCall ==
    /\ call = NoCall
    /\ \E t \in ClassTypes \cup {NullT}, n \in MethodNameSet :
        /\ call' = [op |-> "method_named", self |-> t, name |-> n]
        /\ ret' = MethodNamed(t, n)
        /\ UNCHANGED <<supers, decl, loopVars>>

NextMethods == MethodNamedCall

SpecMethods == InitMethods /\ [][NextMethods]_vars

----------------------------------------------------------------------------
(* Expressions (expressions.py).                                           *)

\* expressions.py:30-32 Variable(name, declared_type).
Variable(t) ==
    [kind |-> "Variable", type |-> t, receiver |-> <<>>, name |-> "", args |-> <<>>]
\* expressions.py:43-45 Literal(value, type).
Literal(t) ==
    [kind |-> "Literal", type |-> t, receiver |-> <<>>, name |-> "", args |-> <<>>]
\* expressions.py:53-56 NullLiteral().
NullLiteral ==
    [kind |-> "NullLiteral", type |-> NullT, receiver |-> <<>>, name |-> "", args |-> <<>>]
\* expressions.py:65-69 MethodCall(receiver, method_name, *args).
MethodCall(r, n, as) ==
    [kind |-> "MethodCall", type |-> "", receiver |-> <<r>>, name |-> n, args |-> as]
\* expressions.py:108-110 ConstructorCall(instantiated_type, *args).
ConstructorCall(t, as) ==
    [kind |-> "ConstructorCall", type |-> t, receiver |-> <<>>, name |-> "", args |-> as]

TypeIs(t) == [err |-> NoErr, type |-> t]
TypeFailed(e) == [err |-> e, type |-> ""]

\* The attribute e.declared_type: expressions.py:32 sets it on a Variable and
\* expressions.py:56 on a NullLiteral; no other expression has it.
DeclaredType(e) ==
    IF e.kind = "Variable" THEN TypeIs(e.type)
    ELSE IF e.kind = "NullLiteral" THEN TypeIs(NullT)
    ELSE TypeFailed(AttributeError("declared_type"))

\* expressions.py:71-74 MethodCall.static_type.
MethodCallStaticType(e) ==
    LET d == DeclaredType(e.receiver[1]) IN
    IF d.err # NoErr THEN d
    ELSE LET mr == MethodNamed(d.type, e.name) IN
         IF mr.err # NoErr THEN TypeFailed(mr.err)
         ELSE TypeIs(mr.method[1].return_type)

\* static_type() of every variant: expressions.py:34-35, 47-48, 58-59, 71-74, 114-115.
StaticType(e) ==
    CASE e.kind = "Variable"        -> TypeIs(e.type)
      [] e.kind = "Literal"         -> TypeIs(e.type)
      [] e.kind = "NullLiteral"     -> TypeIs(NullT)
      [] e.kind = "MethodCall"      -> MethodCallStaticType(e)
      [] e.kind = "ConstructorCall" -> TypeIs(e.type)

\* JavaTypeError and the values its message is formatted from.
JavaTypeError(what, on, meth, expected, got, nExpected, nGot) ==
    Err("JavaTypeError", what, on, meth, expected, got, nExpected, nGot)

\* expressions.py:79, 122: the test for boolean, int and double.
IsBoolIntDouble(t) ==
    IsSubtypeOf(t, "boolean") \/ IsSubtypeOf(t, "int") \/ IsSubtypeOf(t, "double")

\* expressions.py:148-151 names(): e.name of every element; the Python builtin
\* `object` has no attribute name.
NamesFails(ts) == PyObject \in Range(ts)

\* The static types of the arguments, as typesGot collects them.
TypesGot(as) == [k \in 1..Len(as) |-> StaticType(as[k]).type]

RECURSIVE CheckTypes(_)
RECURSIVE CheckArgs(_, _)
RECURSIVE MatchMethodArgs(_, _, _, _)

\* expressions.py:87-89 and 128-130: for every argument, static_type() and then
\* check_types(); the first exception ends the loop.
CheckArgs(as, k) ==
    IF k > Len(as) THEN NoErr
    ELSE LET st == StaticType(as[k]) IN
         IF st.err # NoErr THEN st.err
         ELSE LET c == CheckTypes(as[k]) IN
              IF c # NoErr THEN c ELSE CheckArgs(as, k + 1)

\* expressions.py:100-101, 138-139: the mismatch test at position k and the
\* error it raises; NoErr when the position passes.
Mismatch(on, meth, argsExpected, as, k) ==
    LET typeGot == StaticType(as[k]).type
        typesGot == TypesGot(as)
    IN IF (~ IsSubtypeOf(typeGot, argsExpected[k])) /\ typesGot # argsExpected
       THEN IF NamesFails(argsExpected) THEN AttributeError("name")
            ELSE JavaTypeError("expects arguments of type", on, meth,
                               argsExpected, typesGot, 0, 0)
       ELSE NoErr

\* expressions.py:95-101: the position loop of MethodCall.check_types, which
\* calls check_types() on the argument once more.
MatchMethodArgs(on, meth, argsExpected, as) ==
    LET bad == {k \in 1..Len(as) :
                    CheckTypes(as[k]) # NoErr \/ Mismatch(on, meth, argsExpected, as, k) # NoErr}
    IN IF bad = {} THEN NoErr
       ELSE LET k == CHOOSE x \in bad : \A y \in bad : x <= y
            IN IF CheckTypes(as[k]) # NoErr THEN CheckTypes(as[k])
               ELSE Mismatch(on, meth, argsExpected, as, k)

\* expressions.py:134-139: the position loop of ConstructorCall.check_types.
MatchConstructorArgs(on, argsExp, as) ==
    LET bad == {k \in 1..Len(as) : Mismatch(on, "", argsExp, as, k) # NoErr}
    IN IF bad = {} THEN NoErr
       ELSE Mismatch(on, "", argsExp, as, CHOOSE x \in bad : \A y \in bad : x <= y)

\* expressions.py:76-102 MethodCall.check_types.
MethodCallCheckTypes(e) ==
    LET d == DeclaredType(e.receiver[1]) IN
    IF d.err # NoErr THEN d.err
    ELSE LET classtype == d.type IN
    IF IsBoolIntDouble(classtype)
    THEN JavaTypeError("does not have methods", classtype, "", <<>>, <<>>, 0, 0)
    ELSE LET mr == MethodNamed(classtype, e.name) IN
    IF mr.err # NoErr THEN mr.err
    ELSE LET argsExpected == mr.method[1].argument_types
             inArgs == CheckArgs(e.args, 1)
         IN
    IF inArgs # NoErr THEN inArgs
    ELSE IF Len(argsExpected) # Len(e.args)
    THEN JavaTypeError("wrong number of arguments", classtype, e.name, <<>>, <<>>,
                       Len(argsExpected), Len(e.args))
    ELSE MatchMethodArgs(classtype, e.name, argsExpected, e.args)

\* expressions.py:117-140 ConstructorCall.check_types; a plain Type (a primitive)
\* has no attribute constructor.
ConstructorCallCheckTypes(e) ==
    LET classType == e.type IN
    IF classType = NullT
    THEN JavaTypeError("is not instantiable", NullT, "", <<>>, <<>>, 0, 0)
    ELSE IF IsBoolIntDouble(classType)
    THEN JavaTypeError("is not instantiable", classType, "", <<>>, <<>>, 0, 0)
    ELSE IF classType \in Primitives THEN AttributeError("constructor")
    ELSE LET argsExp == ConstructorArgs(classType)
             inArgs == CheckArgs(e.args, 1)
         IN
    IF inArgs # NoErr THEN inArgs
    ELSE IF Len(argsExp) # Len(e.args)
    THEN JavaTypeError("wrong number of arguments", classType, "", <<>>, <<>>,
                       Len(argsExp), Len(e.args))
    ELSE MatchConstructorArgs(classType, argsExp, e.args)

\* check_types() of every variant: expressions.py:37-38, 50-51, 76-102, 117-140.
CheckTypes(e) ==
    CASE e.kind = "MethodCall"      -> MethodCallCheckTypes(e)
      [] e.kind = "ConstructorCall" -> ConstructorCallCheckTypes(e)
      [] OTHER                      -> NoErr

----------------------------------------------------------------------------
(* The expressions checked.                                                *)

GraphOf(a, b, c) ==
    BuiltinSupers @@ [t \in UserClasses |-> CASE t = "A" -> a [] t = "B" -> b [] OTHER -> c]
\* C extends B extends A extends Object.
Chain == GraphOf(<<ObjectT>>, <<"A">>, <<"B">>)
\* C implements A and B, which both extend Object.
Diamond == GraphOf(<<ObjectT>>, <<ObjectT>>, <<"A", "B">>)
\* Three unrelated classes.
Flat == GraphOf(<<>>, <<>>, <<>>)
ExprGraphs == {Chain, Diamond, Flat}

\* Literals are of a primitive type or, as a string literal is, of a class type.
LiteralTypes == {"boolean", "int", "double", "A"}
Atoms ==
    {Variable(t) : t \in Types} \cup {Literal(t) : t \in LiteralTypes} \cup {NullLiteral}
\* Calls used as subexpressions of a call.
SubCalls ==
    {MethodCall(Variable(t), UserMethod, <<>>) : t \in {"int", "A"}}
        \cup {ConstructorCall(t, <<>>) : t \in {"A", NullT}}
ArgExprs ==
    {Variable(t) : t \in {"double", "boolean", "A", "C"}} \cup {NullLiteral} \cup SubCalls
Receivers == Atoms \cup SubCalls
ArgLists == UNION {[1..n -> ArgExprs] : n \in 0..MaxArgs}
Exprs ==
    {MethodCall(r, n, as) : r \in Receivers, n \in MethodNameSet, as \in ArgLists}
        \cup {ConstructorCall(t, as) : t \in Types, as \in ArgLists}

Init ==
    /\ supers \in ExprGraphs
    /\ decl \in SUBSET UserClasses
    /\ call = NoCall
    /\ ret = FALSE
    /\ LoopIdle

\* e.static_type()
StaticTypeCall ==
    /\ call = NoCall
    /\ \E e \in Exprs :
        /\ call' = [op |-> "static_type", expr |-> e]
        /\ ret' = StaticType(e)
        /\ UNCHANGED <<supers, decl, loopVars>>

\* e.check_types()
CheckTypesCall ==
    /\ call = NoCall
    /\ \E e \in Exprs :
        /\ call' = [op |-> "check_types", expr |-> e]
        /\ ret' = CheckTypes(e)
        /\ UNCHANGED <<supers, decl, loopVars>>

Next == StaticTypeCall \/ CheckTypesCall

Spec == Init /\ [][Next]_vars

----------------------------------------------------------------------------
(* Properties.                                                             *)

NoDuplicates(s) == \A m, n \in 1..Len(s) : s[m] = s[n] => m = n

\* The step-level run of is_subtype_of returns what the function computes.
LoopAgrees == pc = "done" => ret = IsSubtypeOf(call.self, call.other)

\* C1: for a non-null self, self.is_subtype_of(other) is true exactly when other
\* is self or is reachable from self over one or more direct_supertypes edges;
\* the ancestor list holds self and every reachable type once.
C1_SubtypeIsReachability ==
    (call.op = "is_subtype_of" /\ call.self # NullT) =>
        /\ ret = (call.other = call.self \/ call.other \in Ancestors(supers, call.self))
        /\ Range(AllSupers(call.self)) = {call.self} \cup Ancestors(supers, call.self)
        /\ NoDuplicates(AllSupers(call.self))

\* C1 on a diamond: C has the supertypes A and B, which share the ancestor Object.
C1_Witness ==
    /\ call.op = "is_subtype_of"
    /\ call.self = "C" /\ call.other = ObjectT /\ ret = TRUE
    /\ supers["C"] = <<"A", "B">>
    /\ supers["A"] = <<ObjectT>> /\ supers["B"] = <<ObjectT>>

\* C8: subtyping is transitive: once a.is_subtype_of(b) has returned true, every
\* type c with b.is_subtype_of(c) has a.is_subtype_of(c), primitives and the null
\* type included.
C8_Transitive ==
    (call.op = "is_subtype_of" /\ ret = TRUE) =>
        \A c \in Types :
            IsSubtypeOf(call.other, c) => IsSubtypeOf(call.self, c)

\* C8 on a chain of three distinct classes, the third not a direct supertype.
C8_Witness ==
    /\ call.op = "is_subtype_of" /\ ret = TRUE
    /\ call.self \in UserClasses /\ call.other \in UserClasses
    /\ call.self # call.other
    /\ \E c \in ClassTypes \ {call.self, call.other} :
          /\ IsSubtypeOf(call.other, c)
          /\ c \notin Range(supers[call.self])

\* C9: x.is_supertype_of(y) returns what y.is_subtype_of(x) returns, the null
\* type included on either side.
C9_SupertypeMirrorsSubtype ==
    call.op = "is_supertype_of" => ret = IsSubtypeOf(call.other, call.self)

\* C10: is_subtype_of terminates on every supertype graph, cyclic ones included:
\* the worklist only ever gains a type that is not yet in it, holds no type twice,
\* the while loop is left after a pass that added no type, and the call reaches
\* its return.
C10_Terminates ==
    /\ [][pc # "idle" =>
            \/ allSupers' = allSupers
            \/ \E t \in Types \ Range(allSupers) : allSupers' = Append(allSupers, t)]_vars
    /\ [][(pc = "while" /\ currentSize = prevSize) => pc' = "return"]_vars
    /\ [](NoDuplicates(allSupers))
    /\ <>(pc = "done")

\* C10 on a cycle: the call has returned for a type that is its own ancestor.
C10_Witness ==
    /\ pc = "done"
    /\ self \in Ancestors(supers, self)
    /\ Len(allSupers) >= 3

\* The lookup the documentation describes: the own table first, then the direct
\* supertypes in declared order, depth-first, every type searched once.
RECURSIVE RefLookup(_, _, _)
RECURSIVE RefLookupList(_, _, _, _)
RefLookup(t, n, seen) ==
    IF t \in seen THEN [found |-> <<>>, seen |-> seen]
    ELSE IF n \in OwnMethodNames(t) THEN [found |-> <<OwnMethod(t, n)>>, seen |-> seen \cup {t}]
    ELSE RefLookupList(supers[t], 1, n, seen \cup {t})
RefLookupList(ps, k, n, seen) ==
    IF k > Len(ps) THEN [found |-> <<>>, seen |-> seen]
    ELSE LET r == RefLookup(ps[k], n, seen)
         IN IF r.found # <<>> THEN r ELSE RefLookupList(ps, k + 1, n, r.seen)

\* C3: t.method_named(n) returns the method of t's own table when there is one,
\* otherwise the first match of the depth-first search of the supertypes in
\* declared order, and raises NoSuchMethod when no table of the hierarchy
\* reachable from t holds n; on the null type it always raises NoSuchMethod.
C3_MethodNamed ==
    call.op = "method_named" =>
        IF call.self = NullT THEN ret.err.exc = "NoSuchMethod"
        ELSE IF call.name \in OwnMethodNames(call.self)
        THEN ret = MethodFound(OwnMethod(call.self, call.name))
        ELSE IF \A t \in Ancestors(supers, call.self) : call.name \notin OwnMethodNames(t)
        THEN ret.err.exc = "NoSuchMethod"
        ELSE ret = MethodFound(RefLookup(call.self, call.name, {}).found[1])

\* C3 holds of the graphs in which no type is its own ancestor.
C3_OnAcyclicGraphs == Acyclic(supers) => C3_MethodNamed

IsComposite(e) == e.kind \in {"MethodCall", "ConstructorCall"}

\* The type a call is made on: the receiver's static type, or the instantiated type.
TargetType(e) ==
    IF e.kind = "MethodCall" THEN StaticType(e.receiver[1]) ELSE TypeIs(e.type)

\* The declared parameter types of the call, when its target is a class type
\* and the signature resolves; <<>> marks the other cases.
Signature(e) ==
    LET t == TargetType(e) IN
    IF t.err # NoErr \/ t.type \notin ClassTypes THEN <<>>
    ELSE IF e.kind = "ConstructorCall" THEN <<ConstructorArgs(t.type)>>
    ELSE LET mr == MethodNamed(t.type, e.name)
         IN IF mr.err # NoErr THEN <<>> ELSE <<mr.method[1].argument_types>>

ArgsPass(e) == \A k \in 1..Len(e.args) : CheckTypes(e.args[k]) = NoErr

\* C2: on a call whose target is a class type with a resolved signature and
\* whose arguments pass check_types() on their own, check_types() succeeds
\* exactly when the argument count equals the parameter count and every
\* argument's static type is a subtype of its parameter type; it raises the
\* arity error when the counts differ and the argument-type error otherwise.
C2_ArityAndSubtypes ==
    (call.op = "check_types" /\ IsComposite(call.expr)
        /\ Signature(call.expr) # <<>> /\ ArgsPass(call.expr)) =>
        LET e == call.expr
            params == Signature(e)[1]
            sameCount == Len(e.args) = Len(params)
            fits == sameCount /\ \A k \in 1..Len(params) :
                        IsSubtypeOf(StaticType(e.args[k]).type, params[k])
        IN /\ (ret = NoErr) = fits
           /\ ~ sameCount =>
                 (ret.exc = "JavaTypeError" /\ ret.what = "wrong number of arguments")
           /\ (sameCount /\ ~ fits) =>
                 (ret.exc = "JavaTypeError" /\ ret.what = "expects arguments of type")

\* C4: on a call that gets past its own gate (a class-type target with a
\* resolved signature), when some argument fails check_types() on its own,
\* check_types() raises the error that the leftmost failing argument's own
\* check_types() raises.
C4_SubexpressionErrorFirst ==
    (call.op = "check_types" /\ IsComposite(call.expr)
        /\ Signature(call.expr) # <<>> /\ ~ ArgsPass(call.expr)) =>
        LET e == call.expr
            failing == {k \in 1..Len(e.args) : CheckTypes(e.args[k]) # NoErr}
            first == CHOOSE k \in failing : \A m \in failing : k <= m
        IN ret = CheckTypes(e.args[first])

\* C5: a MethodCall whose receiver has the static type boolean, int or double
\* fails check_types() with the JavaTypeError "does not have methods".
C5_PrimitiveReceiver ==
    (call.op = "check_types" /\ call.expr.kind = "MethodCall"
        /\ StaticType(call.expr.receiver[1]).type \in {"boolean", "int", "double"}) =>
        /\ ret.exc = "JavaTypeError"
        /\ ret.what = "does not have methods"

\* C6: a ConstructorCall of the null type or of a primitive type (void, boolean,
\* int, double) fails check_types() with the JavaTypeError "is not instantiable";
\* a ConstructorCall of a class type never fails with that error on its own type.
C6_NotInstantiable ==
    (call.op = "check_types" /\ call.expr.kind = "ConstructorCall") =>
        LET t == call.expr.type
            refused == /\ ret.exc = "JavaTypeError"
                       /\ ret.what = "is not instantiable"
                       /\ ret.on = t
        IN IF t \in Primitives \cup {NullT} THEN refused ELSE ~ refused

\* C7: static_type() of a MethodCall whose method resolves on the receiver's
\* static type returns the return type of that method, whatever variant the
\* receiver is.
C7_StaticTypeOfMethodCall ==
    (call.op = "static_type" /\ call.expr.kind = "MethodCall") =>
        LET t == StaticType(call.expr.receiver[1]) IN
        (t.err = NoErr /\ t.type \in ClassTypes \cup {NullT}
            /\ MethodNamed(t.type, call.expr.name).err = NoErr) =>
            ret = TypeIs(MethodNamed(t.type, call.expr.name).method[1].return_type)

====
